---- MODULE Spec2Model ----
(***************************************************************************)
(* A model of src/MerkleTree.py: class MerkleTree, its constructor and its *)
(* public operations.  Python lists are sequences; a Python index i is the *)
(* TLA+ index i + 1.  A digest is the string "H(" \o bytes \o ")": SHA-256 *)
(* taken as collision-free, so that the hash of a text is an injective     *)
(* function of that text and the concatenation left + right of two digests *)
(* is the real concatenation of two strings.                               *)
(***************************************************************************)
EXTENDS Integers, Sequences, FiniteSets, TLC

VARIABLES data_list, phase, leaves, tree, last

vars == <<data_list, phase, leaves, tree, last>>

\* The longest record list the constructor is given.
MaxLeaves == 5

----------------------------------------------------------------------------
\* Python values

None == "None"
NoError == ""
IndexError == "IndexError"
TypeError == "TypeError"

\* A caller's record: a str, a dict (its items in insertion order) or
\* another value (an int).
TextRec(s) == [kind |-> "str", text |-> s, num |-> 0, items |-> <<>>]
IntRec(n) == [kind |-> "int", text |-> "", num |-> n, items |-> <<>>]
DictRec(its) == [kind |-> "dict", text |-> "", num |-> 0, items |-> its]
NoRec == [kind |-> "none", text |-> "", num |-> 0, items |-> <<>>]

Item(k, v) == [key |-> k, val |-> v]

\* Two mappings with the same key/value pairs, inserted in different orders.
DictIdName == DictRec(<<Item("id", "2"), Item("name", "\"Bob\"")>>)
DictNameId == DictRec(<<Item("name", "\"Bob\""), Item("id", "2")>>)

\* The records a list is built from, and the records handed to an operation.
DataRecords == {TextRec("a"), IntRec(7), DictIdName, DictNameId}
ArgRecords == {TextRec("a"), IntRec(7), DictIdName}

\* The indices and level numbers handed to an operation: every valid one,
\* len (too large), -1 (list[-1] is the last element) and one below -len.
Indices == {0 - (MaxLeaves + 1), 0 - 1} \cup (0 .. MaxLeaves)

----------------------------------------------------------------------------
\* _hash_data

\* The keys of the records, in the order sorted() gives them.
KeyOrder == <<"balance", "id", "name">>

HasKey(its, k) == \E n \in 1..Len(its) : its[n].key = k
ValueOf(its, k) == its[CHOOSE n \in 1..Len(its) : its[n].key = k].val

SortedKeys(its) == SelectSeq(KeyOrder, LAMBDA k : HasKey(its, k))

RECURSIVE JoinItems(_, _, _)
JoinItems(its, keys, n) ==
  IF n > Len(keys) THEN ""
  ELSE (IF n > 1 THEN ", " ELSE "")
       \o "\"" \o keys[n] \o "\": " \o ValueOf(its, keys[n])
       \o JoinItems(its, keys, n + 1)

\* json.dumps(data, sort_keys=True): a str.
JsonDumps(its) == "{" \o JoinItems(its, SortedKeys(its), 1) \o "}"

\* A Python object handed to hashlib.sha256: bytes or str.
Bytes(s) == [type |-> "bytes", val |-> s]
Str(s) == [type |-> "str", val |-> s]

\* hashlib.sha256(data).hexdigest(): a str raises TypeError.
Sha256Hex(obj) ==
  IF obj.type = "bytes" THEN "H(" \o obj.val \o ")" ELSE TypeError

HashData(data) ==
  IF data.kind = "dict" THEN Sha256Hex(Str(JsonDumps(data.items)))
  ELSE IF data.kind = "str" THEN Sha256Hex(Bytes(data.text))
  ELSE Sha256Hex(Bytes(ToString(data.num)))

IsDigest(h) == h # TypeError /\ h # None

----------------------------------------------------------------------------
\* _build_tree

\* Combine with the unpaired last node hashed alone instead of with itself.
Combine_NoDuplicate(current_level, i) ==
  LET left == current_level[i + 1]
      right == IF i + 1 < Len(current_level) THEN current_level[i + 2] ELSE ""
  IN  HashData(TextRec(left \o right))

\* The node built from current_level[i] and its right neighbour.
Combine(current_level, i) ==
  LET left == current_level[i + 1]
      right == IF i + 1 < Len(current_level) THEN current_level[i + 2] ELSE left
  IN  HashData(TextRec(left \o right))

RECURSIVE NextLevel(_, _)
NextLevel(current_level, i) ==
  IF i >= Len(current_level) THEN <<>>
  ELSE <<Combine(current_level, i)>> \o NextLevel(current_level, i + 2)

RECURSIVE BuildLoop(_, _)
BuildLoop(tr, current_level) ==
  IF Len(current_level) > 1
  THEN LET next_level == NextLevel(current_level, 0)
       IN  BuildLoop(Append(tr, next_level), next_level)
  ELSE tr

BuildTree(lv) == BuildLoop(<<lv>>, lv)

----------------------------------------------------------------------------
\* Results of an operation: exc names the exception raised (NoError when the
\* call returns), the other fields the value returned.

Returns(v) == [exc |-> NoError, val |-> v]
Raises(e) == [exc |-> e, val |-> None]

\* index ^ 1 for an index >= 0.
Xor1(index) == IF index % 2 = 0 THEN index + 1 ELSE index - 1

\* list[i]: a negative i counts from the end; outside [-len, len) it raises.
PyInRange(list, i) == (0 - Len(list)) <= i /\ i < Len(list)
PyAt(list, i) == IF i < 0 THEN list[Len(list) + i + 1] ELSE list[i + 1]
PySet(list, i, v) ==
  [list EXCEPT ![IF i < 0 THEN Len(list) + i + 1 ELSE i + 1] = v]

\* get_root: self.tree[-1][0] if self.tree else None
GetRoot(tr) ==
  IF Len(tr) > 0
  THEN IF PyInRange(tr[Len(tr)], 0) THEN Returns(tr[Len(tr)][1])
       ELSE Raises(IndexError)
  ELSE Returns(None)

\* get_tree_height
GetTreeHeight(tr) == Len(tr)

\* get_proof: the steps of levels level .. len(tree) - 2.
ProofStep(tr, level, index) ==
  LET sibling_index == Xor1(index)
  IN  IF sibling_index < Len(tr[level + 1])
      THEN <<[hash |-> tr[level + 1][sibling_index + 1],
              position |-> IF sibling_index < index THEN "left" ELSE "right"]>>
      ELSE <<>>

RECURSIVE ProofLoop(_, _, _)
ProofLoop(tr, level, index) ==
  IF level >= Len(tr) - 1 THEN <<>>
  ELSE ProofStep(tr, level, index) \o ProofLoop(tr, level + 1, index \div 2)

GetProof(lv, tr, index) ==
  IF index < 0 \/ index >= Len(lv) THEN Raises(IndexError)
  ELSE [exc |-> NoError, val |-> ProofLoop(tr, 0, index)]

\* ApplyStep with the sibling's hash used for both halves of a 'left' step.
ApplyStep_SiblingTwice(current_hash, sibling) ==
  IF sibling.position = "left"
  THEN HashData(TextRec(sibling.hash \o sibling.hash))
  ELSE IF sibling.position = "right"
  THEN HashData(TextRec(current_hash \o sibling.hash))
  ELSE current_hash

\* verify_proof: one step of the loop over the proof.
ApplyStep(current_hash, sibling) ==
  IF sibling.position = "left"
  THEN HashData(TextRec(sibling.hash \o current_hash))
  ELSE IF sibling.position = "right"
  THEN HashData(TextRec(current_hash \o sibling.hash))
  ELSE current_hash

RECURSIVE VerifyLoop(_, _, _)
VerifyLoop(current_hash, proof, n) ==
  IF n > Len(proof) THEN current_hash
  ELSE VerifyLoop(ApplyStep(current_hash, proof[n]), proof, n + 1)

VerifyProof(leaf, proof, root) ==
  LET current_hash == HashData(leaf)
  IN  IF current_hash = TypeError THEN [exc |-> TypeError, val |-> FALSE]
      ELSE [exc |-> NoError, val |-> VerifyLoop(current_hash, proof, 1) = root]

\* get_level_nodes
GetLevelNodes(tr, level) ==
  IF level < 0 \/ level >= Len(tr) THEN [exc |-> IndexError, val |-> <<>>]
  ELSE [exc |-> NoError, val |-> tr[level + 1]]

\* FindSibling with index + 1 in place of index ^ 1.
FindSibling_PlusOne(lv, tr, index) ==
  IF index < 0 \/ index >= Len(lv) THEN Raises(IndexError)
  ELSE LET sibling_index == index + 1
       IN  IF sibling_index < Len(lv) THEN Returns(tr[1][sibling_index + 1])
           ELSE Returns(None)

\* find_sibling
FindSibling(lv, tr, index) ==
  IF index < 0 \/ index >= Len(lv) THEN Raises(IndexError)
  ELSE LET sibling_index == Xor1(index)
       IN  IF sibling_index < Len(lv) THEN Returns(tr[1][sibling_index + 1])
           ELSE Returns(None)

\* check_integrity
CombineHashes(left, right) ==
  IF left = None THEN HashData(TextRec(right))
  ELSE IF right = None THEN HashData(TextRec(left))
  ELSE HashData(TextRec(left \o right))

ParentMatches(tr, level, i) ==
  LET left == tr[level + 1][i + 1]
      right == IF i + 1 < Len(tr[level + 1]) THEN tr[level + 1][i + 2] ELSE left
  IN  CombineHashes(left, right) = tr[level + 2][(i \div 2) + 1]

CheckIntegrity(tr) ==
  \A level \in 0 .. Len(tr) - 2 :
    \A i \in {j \in 0 .. Len(tr[level + 1]) - 1 : j % 2 = 0} :
      ParentMatches(tr, level, i)

\* TestImmutability with the updated root read after the leaf is restored.
TestImmutability_RootAfterRestore(lv, tr, index, new_value) ==
  LET original_root == GetRoot(tr)
      same == [exc |-> NoError, val |-> FALSE, leaves |-> lv, tree |-> tr]
  IN  IF original_root.exc # NoError
      THEN [same EXCEPT !.exc = original_root.exc]
      ELSE IF ~PyInRange(lv, index) THEN [same EXCEPT !.exc = IndexError]
      ELSE IF HashData(new_value) = TypeError
      THEN [same EXCEPT !.exc = TypeError]
      ELSE LET original_leaf == PyAt(lv, index)
               modified == PySet(lv, index, HashData(new_value))
               restored == PySet(modified, index, original_leaf)
               updated_root == GetRoot(BuildTree(restored))
           IN  [exc |-> updated_root.exc,
                val |-> original_root.val = updated_root.val,
                leaves |-> restored,
                tree |-> BuildTree(restored)]

\* TestImmutability without the restoring assignment and rebuild.
TestImmutability_NoRestore(lv, tr, index, new_value) ==
  LET original_root == GetRoot(tr)
      same == [exc |-> NoError, val |-> FALSE, leaves |-> lv, tree |-> tr]
  IN  IF original_root.exc # NoError
      THEN [same EXCEPT !.exc = original_root.exc]
      ELSE IF ~PyInRange(lv, index) THEN [same EXCEPT !.exc = IndexError]
      ELSE IF HashData(new_value) = TypeError
      THEN [same EXCEPT !.exc = TypeError]
      ELSE LET modified == PySet(lv, index, HashData(new_value))
               updated_root == GetRoot(BuildTree(modified))
           IN  [exc |-> updated_root.exc,
                val |-> original_root.val = updated_root.val,
                leaves |-> modified,
                tree |-> BuildTree(modified)]

\* test_immutability: the exception or the value returned, and the leaves
\* and the tree the call leaves behind.
TestImmutability(lv, tr, index, new_value) ==
  LET original_root == GetRoot(tr)
      same == [exc |-> NoError, val |-> FALSE, leaves |-> lv, tree |-> tr]
  IN  IF original_root.exc # NoError
      THEN [same EXCEPT !.exc = original_root.exc]
      ELSE IF ~PyInRange(lv, index) THEN [same EXCEPT !.exc = IndexError]
      ELSE IF HashData(new_value) = TypeError
      THEN [same EXCEPT !.exc = TypeError]
      ELSE LET original_leaf == PyAt(lv, index)
               modified == PySet(lv, index, HashData(new_value))
               updated_root == GetRoot(BuildTree(modified))
               restored == PySet(modified, index, original_leaf)
           IN  [exc |-> updated_root.exc,
                val |-> original_root.val = updated_root.val,
                leaves |-> restored,
                tree |-> BuildTree(restored)]

----------------------------------------------------------------------------
\* The state: the constructor's argument, whether the object exists, its
\* fields self.leaves and self.tree, and the last call with its outcome.

NoCall ==
  [op |-> "none", index |-> 0, rec |-> NoRec, variant |-> "", proof |-> <<>>,
   exc |-> NoError, b |-> FALSE, s |-> None, l |-> <<>>, n |-> 0]

RECURSIVE SeqsUpTo(_, _)
SeqsUpTo(S, n) ==
  IF n = 0 THEN {<<>>}
  ELSE LET shorter == SeqsUpTo(S, n - 1)
       IN  shorter \cup {Append(q, x) : q \in {r \in shorter : Len(r) = n - 1}, x \in S}

Init ==
  /\ data_list \in SeqsUpTo(DataRecords, MaxLeaves)
  /\ phase = "init"
  /\ leaves = <<>>
  /\ tree = <<>>
  /\ last = NoCall

\* __init__: a record _hash_data cannot hash makes the constructor raise.
Construct ==
  /\ phase = "init"
  /\ LET hashed == [n \in 1..Len(data_list) |-> HashData(data_list[n])]
     IN  IF \E n \in 1..Len(hashed) : hashed[n] = TypeError
         THEN /\ phase' = "failed"
              /\ last' = [NoCall EXCEPT !.op = "__init__", !.exc = TypeError]
              /\ UNCHANGED <<leaves, tree>>
         ELSE /\ phase' = "built"
              /\ leaves' = hashed
              /\ tree' = BuildTree(hashed)
              /\ last' = [NoCall EXCEPT !.op = "__init__"]
  /\ UNCHANGED data_list

CallGetRoot ==
  /\ phase = "built"
  /\ LET r == GetRoot(tree)
     IN  last' = [NoCall EXCEPT !.op = "get_root", !.exc = r.exc, !.s = r.val]
  /\ UNCHANGED <<data_list, phase, leaves, tree>>

CallGetTreeHeight ==
  /\ phase = "built"
  /\ last' = [NoCall EXCEPT !.op = "get_tree_height", !.n = GetTreeHeight(tree)]
  /\ UNCHANGED <<data_list, phase, leaves, tree>>

CallGetProof(index) ==
  /\ phase = "built"
  /\ LET r == GetProof(leaves, tree, index)
     IN  last' = [NoCall EXCEPT !.op = "get_proof", !.index = index,
                                !.exc = r.exc,
                                !.proof = IF r.exc = NoError THEN r.val ELSE <<>>]
  /\ UNCHANGED <<data_list, phase, leaves, tree>>

\* A step whose position is neither 'left' nor 'right'.
MalformedStep(h) == [hash |-> h, position |-> "middle"]

\* verify_proof(leaf, proof, get_root()), the proof being get_proof(index) as
\* generated, or with a malformed step appended.
CallVerifyProof(leaf, index, variant) ==
  /\ phase = "built"
  /\ GetProof(leaves, tree, index).exc = NoError
  /\ LET generated == GetProof(leaves, tree, index).val
         root == GetRoot(tree).val
         proof == IF variant = "generated" THEN generated
                  ELSE Append(generated, MalformedStep(root))
         r == VerifyProof(leaf, proof, root)
     IN  last' = [NoCall EXCEPT !.op = "verify_proof", !.index = index,
                                !.rec = leaf, !.variant = variant,
                                !.proof = proof, !.s = root,
                                !.exc = r.exc, !.b = r.val]
  /\ UNCHANGED <<data_list, phase, leaves, tree>>

CallGetLevelNodes(level) ==
  /\ phase = "built"
  /\ LET r == GetLevelNodes(tree, level)
     IN  last' = [NoCall EXCEPT !.op = "get_level_nodes", !.index = level,
                                !.exc = r.exc, !.l = r.val]
  /\ UNCHANGED <<data_list, phase, leaves, tree>>

CallFindSibling(index) ==
  /\ phase = "built"
  /\ LET r == FindSibling(leaves, tree, index)
     IN  last' = [NoCall EXCEPT !.op = "find_sibling", !.index = index,
                                !.exc = r.exc, !.s = r.val]
  /\ UNCHANGED <<data_list, phase, leaves, tree>>

CallCheckIntegrity ==
  /\ phase = "built"
  /\ last' = [NoCall EXCEPT !.op = "check_integrity", !.b = CheckIntegrity(tree)]
  /\ UNCHANGED <<data_list, phase, leaves, tree>>

CallTestImmutability(index, new_value) ==
  /\ phase = "built"
  /\ LET r == TestImmutability(leaves, tree, index, new_value)
     IN  /\ leaves' = r.leaves
         /\ tree' = r.tree
         /\ last' = [NoCall EXCEPT !.op = "test_immutability", !.index = index,
                                   !.rec = new_value, !.exc = r.exc, !.b = r.val]
  /\ UNCHANGED <<data_list, phase>>

Next ==
  \/ Construct
  \/ CallGetRoot
  \/ CallGetTreeHeight
  \/ \E index \in Indices : CallGetProof(index)
  \/ \E leaf \in ArgRecords, index \in Indices,
        variant \in {"generated", "malformed_appended"} :
       CallVerifyProof(leaf, index, variant)
  \/ \E level \in Indices : CallGetLevelNodes(level)
  \/ \E index \in Indices : CallFindSibling(index)
  \/ CallCheckIntegrity
  \/ \E index \in Indices, new_value \in ArgRecords :
       CallTestImmutability(index, new_value)

Spec == Init /\ [][Next]_vars

----------------------------------------------------------------------------
\* Properties

ValidLeaf(i) == 0 <= i /\ i < Len(leaves)
ValidLevel(k) == 0 <= k /\ k < Len(tree)
Malformed(proof) ==
  \E k \in 1..Len(proof) : proof[k].position \notin {"left", "right"}
VerifiedGenerated ==
  last.op = "verify_proof" /\ last.variant = "generated"

\* C1: for every non-empty input and every leaf index i,
\* verify_proof(records[i], get_proof(i), get_root()) returns True.
C1_ProofRoundTrip ==
  (VerifiedGenerated /\ last.rec = data_list[last.index + 1])
    => (last.exc = NoError /\ last.b = TRUE)

\* C2: a record whose leaf hash differs from the leaf hash stored at index i
\* does not verify against get_proof(i) and the root.
C2_ProofSoundness ==
  (VerifiedGenerated /\ last.exc = NoError
     /\ HashData(last.rec) # leaves[last.index + 1])
    => last.b = FALSE

\* A record other than the one at the index was rejected on a proof of two
\* or more steps that the record at the index itself verifies with.
C2_Witness ==
  /\ VerifiedGenerated /\ last.exc = NoError
  /\ HashData(last.rec) # leaves[last.index + 1]
  /\ last.b = FALSE
  /\ Len(last.proof) >= 2
  /\ VerifyProof(data_list[last.index + 1], last.proof, last.s).val = TRUE

\* C3: once built, level 0 is the leaf hashes, level k+1 has ceil(len(level
\* k)/2) nodes, node i of level k+1 is the hash of nodes 2i and 2i+1 of level k
\* (of node 2i twice when 2i+1 does not exist), and check_integrity is True.
C3_WellFormed ==
  phase = "built" =>
    /\ Len(leaves) = Len(data_list)
    /\ \A n \in 1..Len(leaves) : leaves[n] = "H(" \o
         (IF data_list[n].kind = "str" THEN data_list[n].text
          ELSE ToString(data_list[n].num)) \o ")"
    /\ Len(tree) >= 1 /\ tree[1] = leaves
    /\ Len(tree[Len(tree)]) <= 1
    /\ \A k \in 1 .. Len(tree) - 1 :
         /\ Len(tree[k]) > 1
         /\ Len(tree[k + 1]) = (Len(tree[k]) + 1) \div 2
         /\ \A i \in 0 .. Len(tree[k + 1]) - 1 :
              tree[k + 1][i + 1] =
                IF 2 * i + 1 < Len(tree[k])
                THEN "H(" \o tree[k][2 * i + 1] \o tree[k][2 * i + 2] \o ")"
                ELSE "H(" \o tree[k][2 * i + 1] \o tree[k][2 * i + 1] \o ")"
    /\ CheckIntegrity(tree)
    /\ (last.op = "check_integrity" => last.b = TRUE)

\* check_integrity returned True on a tree whose leaf level is odd and has an
\* upper level above it with more than one node.
C3_Witness ==
  /\ phase = "built" /\ last.op = "check_integrity" /\ last.b = TRUE
  /\ Len(leaves) % 2 = 1 /\ Len(tree) >= 3

\* C4: test_immutability(i, newRecord) with a valid i and a record whose hash
\* differs from the leaf hash at i returns False.
C4_TamperSensitivity ==
  (last.op = "test_immutability" /\ last.exc = NoError /\ ValidLeaf(last.index)
     /\ HashData(last.rec) # leaves[last.index + 1])
    => last.b = FALSE

\* The leaf replaced was the last one of an odd level, the one paired with
\* itself.
C4_Witness ==
  /\ last.op = "test_immutability" /\ last.exc = NoError
  /\ last.index = Len(leaves) - 1 /\ Len(leaves) % 2 = 1 /\ Len(leaves) >= 3
  /\ HashData(last.rec) # leaves[last.index + 1]
  /\ last.b = FALSE

\* C5: no call on a built tree, test_immutability included and whether it
\* returns or raises, changes the leaf list or any level of the tree.
C5_StateRestored ==
  [][phase = "built" => (leaves' = leaves /\ tree' = tree)]_vars

\* test_immutability returned after replacing a leaf by a different hash, and
\* the tree is the one built from the records.
C5_Witness ==
  /\ last.op = "test_immutability" /\ last.exc = NoError /\ last.b = FALSE
  /\ Len(leaves) >= 2
  /\ leaves = [n \in 1..Len(data_list) |-> HashData(data_list[n])]
  /\ tree = BuildTree(leaves)

\* C6: on a tree built from no records get_root returns None and does not
\* raise.
C6_EmptyRootAbsent ==
  (phase = "built" /\ Len(data_list) = 0 /\ last.op = "get_root")
    => (last.exc = NoError /\ last.s = None)

SamePairs(d, e) ==
  {d.items[n] : n \in 1..Len(d.items)} = {e.items[n] : n \in 1..Len(e.items)}

\* C7: a list of mappings is built into a tree, each mapping hashed to a
\* digest, and mappings with the same key/value pairs get the same digest.
C7_KeyOrderIndependence ==
  (phase # "init" /\ Len(data_list) > 0
     /\ \A n \in 1..Len(data_list) : data_list[n].kind = "dict")
    => /\ phase = "built"
       /\ \A n \in 1..Len(leaves) : IsDigest(leaves[n])
       /\ \A m, n \in 1..Len(leaves) :
            SamePairs(data_list[m], data_list[n]) => leaves[m] = leaves[n]

\* C8: get_proof, find_sibling and test_immutability with a leaf index
\* outside [0, leafCount), and get_level_nodes with a level outside
\* [0, height), raise IndexError.
C8_OutOfRangeSurfaced ==
  /\ (last.op \in {"get_proof", "find_sibling", "test_immutability"}
        /\ ~ValidLeaf(last.index)) => last.exc = IndexError
  /\ (last.op = "get_level_nodes" /\ ~ValidLevel(last.index))
        => last.exc = IndexError

\* C9: find_sibling(i) returns the leaf hash at i XOR 1 when that index
\* exists and the leaf's own hash otherwise.
C9_SiblingOrSelf ==
  (last.op = "find_sibling" /\ ValidLeaf(last.index)) =>
    LET other == IF last.index % 2 = 0 THEN last.index + 1 ELSE last.index - 1
    IN  /\ last.exc = NoError
        /\ last.s = IF other < Len(leaves) THEN leaves[other + 1]
                    ELSE leaves[last.index + 1]

\* C9 as amended: find_sibling(i) returns the leaf hash at i XOR 1 when that
\* index exists and None otherwise.
C9_SiblingOrNone ==
  (last.op = "find_sibling" /\ ValidLeaf(last.index)) =>
    LET other == IF last.index % 2 = 0 THEN last.index + 1 ELSE last.index - 1
    IN  /\ last.exc = NoError
        /\ last.s = IF other < Len(leaves) THEN leaves[other + 1] ELSE None

\* find_sibling was asked for the last leaf of an odd leaf level.
C9_Witness ==
  /\ last.op = "find_sibling" /\ last.exc = NoError
  /\ last.index = Len(leaves) - 1 /\ Len(leaves) % 2 = 1
  /\ last.s = None

\* C10: a proof with a step whose position is neither 'left' nor 'right'
\* never verifies.
C10_MalformedNeverVerifies ==
  (last.op = "verify_proof" /\ Malformed(last.proof))
    => ~(last.exc = NoError /\ last.b = TRUE)

====
